---- MODULE Spec2Model ----
(***************************************************************************)
(* Model of crates/agent/src/skills.rs: the skill metadata validator, the  *)
(* frontmatter parser, the skill directory resolver, the two discovery     *)
(* scans, the layered merge and the prompt formatter.                      *)
(*                                                                         *)
(* A Rust `String`/`&str` is modelled as a sequence of Unicode code points *)
(* (one element per `char`).  `str::len()` is the length in UTF-8 bytes,   *)
(* so it is computed from the code points by Utf8Len, never as Len.        *)
(***************************************************************************)
EXTENDS Integers, Sequences, FiniteSets, TLC

VARIABLES
    meta, validated,                       \* SkillMetadata::validate
    content, declared, parsed,             \* parse_skill_file
    fs, skill_path, relative_path, resolved, \* Skill::resolve_path
    root, a_pc, a_idx, a_skills, a_result, \* discover_skills (async)
    s_pc, s_idx, s_skills,                 \* discover_skills_sync
    layers, m_pc, m_idx, all_skills,       \* discover_all_skills_sync
    skills, prompt                         \* format_skills_for_prompt

validateVars == <<meta, validated>>
parseVars    == <<content, declared, parsed>>
resolveVars  == <<fs, skill_path, relative_path, resolved>>
discoverVars == <<root, a_pc, a_idx, a_skills, a_result, s_pc, s_idx, s_skills>>
mergeVars    == <<layers, m_pc, m_idx, all_skills>>
formatVars   == <<skills, prompt>>
vars == <<validateVars, parseVars, resolveVars, discoverVars, mergeVars, formatVars>>

(***************************************************************************)
(* Bounds of the model.                                                    *)
(***************************************************************************)
\* Input lengths are taken within Slack of each length limit of the code.
Slack == 1

(***************************************************************************)
(* Program constants.                                                      *)
(***************************************************************************)
MaxNameLen == 64
MaxDescriptionLen == 1024

(***************************************************************************)
(* Strings.                                                                *)
(***************************************************************************)
\* "---"
Delim == <<45, 45, 45>>

\* char::len_utf8: the number of UTF-8 bytes of one code point.
Utf8Len(c) == IF c < 128 THEN 1 ELSE IF c < 2048 THEN 2 ELSE IF c < 65536 THEN 3 ELSE 4

\* The number of UTF-8 bytes of s[lo..hi] (halving keeps the recursion shallow).
RECURSIVE ByteLenRange(_, _, _)
ByteLenRange(s, lo, hi) ==
    IF lo > hi THEN 0
    ELSE IF lo = hi THEN Utf8Len(s[lo])
    ELSE LET mid == (lo + hi) \div 2
         IN ByteLenRange(s, lo, mid) + ByteLenRange(s, mid + 1, hi)

\* str::len(): the length in bytes.
StrLen(s) == ByteLenRange(s, 1, Len(s))

\* str::is_empty()
IsEmpty(s) == StrLen(s) = 0

\* char::is_ascii_lowercase, char::is_ascii_digit, '-'
IsAsciiLowercase(c) == c \in 97..122
IsAsciiDigit(c) == c \in 48..57
IsNameChar(c) == IsAsciiLowercase(c) \/ IsAsciiDigit(c) \/ c = 45

\* The least element of a non-empty set of integers.
Min(S) == CHOOSE i \in S : \A j \in S : i <= j

\* str::cmp (line 324): byte-wise lexicographic order, which for UTF-8 is the
\* order of the code points.
StrLess(a, b) ==
    \E k \in 1..(Len(a) + 1) :
        /\ k <= Len(b)
        /\ SubSeq(a, 1, k - 1) = SubSeq(b, 1, k - 1)
        /\ (k = Len(a) + 1 \/ a[k] < b[k])

\* n copies of the character c.
Fill(c, n) == [i \in 1..n |-> c]

(***************************************************************************)
(* SkillMetadata::validate (lines 40-67): the first violated rule, or "ok".*)
(***************************************************************************)
validate(m) ==
    IF IsEmpty(m.name) THEN "name_empty"
    ELSE IF StrLen(m.name) > MaxNameLen THEN "name_too_long"
    ELSE IF ~ \A i \in 1..Len(m.name) : IsNameChar(m.name[i]) THEN "name_chars"
    ELSE IF StrLen(m.description) > MaxDescriptionLen THEN "description_too_long"
    ELSE "ok"

(***************************************************************************)
(* Inputs of the validator: names and descriptions whose lengths lie       *)
(* around the limits, filled with characters of every UTF-8 width.         *)
(***************************************************************************)
\* 'a', '7', '-', 'A', '_', U+00E9 (2 bytes), U+20AC (3 bytes), U+1F600 (4 bytes)
NameChars == {97, 55, 45, 65, 95, 233}
DescChars == {100, 233, 8364, 128512}

NameLens == (0..Slack) \cup ((MaxNameLen - Slack)..(MaxNameLen + Slack))
DescLens == {0} \cup { (MaxDescriptionLen \div w) + d : w \in 1..4, d \in (0 - Slack)..Slack }

\* A name of n characters: fill character c, with first character h.
NameOf(h, c, n) == [i \in 1..n |-> IF i = 1 THEN h ELSE c]

ValidateNames == { NameOf(h, c, n) : h \in NameChars, c \in {97, 45}, n \in NameLens }
ValidateDescs == { Fill(c, n) : c \in DescChars, n \in DescLens }

\* An Option<String> is <<>> (None) or <<s>> (Some(s)).
NoMeta == [name |-> <<>>, description |-> <<>>, license |-> <<>>,
           compatibility |-> <<>>, allowed_tools |-> <<>>]

validateIdle == meta = NoMeta /\ validated = "idle"
parseIdle    == content = <<>> /\ declared = NoMeta
                /\ parsed = [ok |-> FALSE, err |-> "idle", metadata |-> NoMeta, body |-> <<>>]
resolveIdle  == fs = <<>> /\ skill_path = <<>> /\ relative_path = <<>>
                /\ resolved = [ok |-> FALSE, err |-> "idle", path |-> <<>>]
discoverIdle == root = [kind |-> "idle", path |-> <<>>, entries |-> <<>>] /\ a_pc = "idle" /\ a_idx = 0 /\ a_skills = <<>>
                /\ a_result = "idle" /\ s_pc = "idle" /\ s_idx = 0 /\ s_skills = <<>>
mergeIdle    == layers = <<>> /\ m_pc = "idle" /\ m_idx = 0 /\ all_skills = <<>>
formatIdle   == skills = <<>> /\ prompt = [status |-> "idle", has_skills |-> FALSE, skills |-> <<>>]

(***************************************************************************)
(* Specification of the validator: a metadata value is drawn, then         *)
(* validate is applied to it.                                              *)
(***************************************************************************)
ValidateInit ==
    /\ \E n \in ValidateNames, d \in ValidateDescs :
           meta = [NoMeta EXCEPT !.name = n, !.description = d]
    /\ validated = "none"
    /\ parseIdle /\ resolveIdle /\ discoverIdle /\ mergeIdle /\ formatIdle

Validate ==
    /\ validated = "none"
    /\ validated' = validate(meta)
    /\ UNCHANGED <<meta, parseVars, resolveVars, discoverVars, mergeVars, formatVars>>

SpecValidate == ValidateInit /\ [][Validate]_vars

\* C7: validate succeeds exactly when the name is non-empty, has at most 64
\* characters, all of them lowercase ASCII letters, digits or hyphens, and the
\* description has at most 1024 characters (characters, not bytes).
C7_ValidateIffInvariants ==
    validated \notin {"none", "idle"} =>
        ( validated = "ok"
          <=> /\ Len(meta.name) >= 1
              /\ Len(meta.name) <= MaxNameLen
              /\ \A i \in 1..Len(meta.name) : IsNameChar(meta.name[i])
              /\ Len(meta.description) <= MaxDescriptionLen )

(***************************************************************************)
(* String operations used by the parser.  Offsets are counted in           *)
(* characters; the code's byte offsets all fall on the ASCII delimiter, so *)
(* the slices are the same.                                                *)
(***************************************************************************)
\* char::is_whitespace (the Unicode White_Space code points)
WhiteSpace == (9..13) \cup {32, 133, 160, 5760} \cup (8192..8202)
              \cup {8232, 8233, 8239, 8287, 12288}

\* str::trim_start, str::trim
TrimStart(s) ==
    LET nw == { i \in 1..Len(s) : s[i] \notin WhiteSpace }
    IN IF nw = {} THEN <<>> ELSE SubSeq(s, Min(nw), Len(s))

Trim(s) ==
    LET nw == { i \in 1..Len(s) : s[i] \notin WhiteSpace }
        last == CHOOSE i \in nw : \A j \in (i + 1)..Len(s) : s[j] \in WhiteSpace
    IN IF nw = {} THEN <<>> ELSE SubSeq(s, Min(nw), last)

\* str::starts_with
StartsWith(s, pat) == Len(s) >= Len(pat) /\ SubSeq(s, 1, Len(pat)) = pat

\* str::find: the index of the first occurrence of pat in s, 0 when there is none.
Find(s, pat) ==
    LET at == { i \in 1..(Len(s) - Len(pat) + 1) : SubSeq(s, i, i + Len(pat) - 1) = pat }
    IN IF at = {} THEN 0 ELSE Min(at)

\* str::contains
Contains(s, pat) == Find(s, pat) # 0

(***************************************************************************)
(* serde_yaml::from_str::<SkillMetadata> (line 139), for the YAML this     *)
(* model feeds it: a block mapping with one `key: value` per line, keys at *)
(* column 0, values single-line plain scalars.  Anything else is a decode  *)
(* error.  Unknown keys are ignored, `name` and `description` are required,*)
(* the Option fields default to None.                                      *)
(***************************************************************************)
KeyName          == <<110, 97, 109, 101>>
KeyDescription   == <<100, 101, 115, 99, 114, 105, 112, 116, 105, 111, 110>>
KeyLicense       == <<108, 105, 99, 101, 110, 115, 101>>
KeyCompatibility == <<99, 111, 109, 112, 97, 116, 105, 98, 105, 108, 105, 116, 121>>
KeyAllowedTools  == <<97, 108, 108, 111, 119, 101, 100, 95, 116, 111, 111, 108, 115>>
\* ": " and "\n"
ColonSpace == <<58, 32>>
NewLine    == <<10>>

\* The lines of y, as the set of their (start, end) offsets.
LineSpans(y) ==
    LET nl == { i \in 1..Len(y) : y[i] = 10 }
        starts == {1} \cup { i + 1 : i \in nl }
    IN { <<st, Min({ i \in nl : i >= st } \cup {Len(y) + 1}) - 1>> : st \in starts }

\* One line of the block mapping: [ok, key, value]; a value of <<>> is null.
DecodeLine(line) ==
    LET sep == Find(line, ColonSpace)
    IN IF line[1] \in WhiteSpace THEN [ok |-> FALSE, key |-> <<>>, value |-> <<>>]
       ELSE IF sep > 1
            THEN LET v == Trim(SubSeq(line, sep + 2, Len(line)))
                 IN [ok |-> ~ Contains(v, ColonSpace),
                     key |-> SubSeq(line, 1, sep - 1), value |-> v]
       ELSE IF Len(line) > 1 /\ line[Len(line)] = 58
            THEN [ok |-> TRUE, key |-> SubSeq(line, 1, Len(line) - 1), value |-> <<>>]
       ELSE [ok |-> FALSE, key |-> <<>>, value |-> <<>>]

DecodeYaml(y) ==
    LET spans == { sp \in LineSpans(y) : Trim(SubSeq(y, sp[1], sp[2])) # <<>> }
        entry == [ sp \in spans |-> DecodeLine(SubSeq(y, sp[1], sp[2])) ]
        Has(k) == \E sp \in spans : entry[sp].key = k /\ entry[sp].value # <<>>
        Val(k) == entry[CHOOSE sp \in spans : entry[sp].key = k].value
        Opt(k) == IF Has(k) THEN <<Val(k)>> ELSE <<>>
    IN IF \/ \E sp \in spans : ~ entry[sp].ok
          \/ \E a, b \in spans : a # b /\ entry[a].key = entry[b].key
          \/ ~ Has(KeyName)
          \/ ~ Has(KeyDescription)
       THEN [ok |-> FALSE, metadata |-> NoMeta]
       ELSE [ok |-> TRUE,
             metadata |-> [name |-> Val(KeyName),
                           description |-> Val(KeyDescription),
                           license |-> Opt(KeyLicense),
                           compatibility |-> Opt(KeyCompatibility),
                           allowed_tools |-> Opt(KeyAllowedTools)]]

(***************************************************************************)
(* parse_skill_file (lines 118-145).                                       *)
(***************************************************************************)
ParseErr(e) == [ok |-> FALSE, err |-> e, metadata |-> NoMeta, body |-> <<>>]

\* Lines 119-137: the frontmatter block and the body, or the error.
SplitFrontmatter(text) ==
    LET c == TrimStart(text)
        rest == SubSeq(c, 4, Len(c))
        end == Find(rest, Delim)
    IN IF ~ StartsWith(c, Delim) THEN [ok |-> FALSE, err |-> "no_frontmatter"]
       ELSE IF end = 0 THEN [ok |-> FALSE, err |-> "not_closed"]
       ELSE [ok |-> TRUE,
             yaml |-> Trim(SubSeq(rest, 1, end - 1)),
             body |-> TrimStart(SubSeq(rest, end + 3, Len(rest)))]

\* parse_skill_file without its line 142.
ParseWithoutValidate(text) ==
    LET split == SplitFrontmatter(text)
    IN IF ~ split.ok THEN ParseErr(split.err)
       ELSE LET dec == DecodeYaml(split.yaml)
            IN IF ~ dec.ok THEN ParseErr("yaml_error")
               ELSE [ok |-> TRUE, err |-> "", metadata |-> dec.metadata, body |-> split.body]

parse_skill_file(text) ==
    LET split == SplitFrontmatter(text)
    IN IF ~ split.ok THEN ParseErr(split.err)
       ELSE LET dec == DecodeYaml(split.yaml)
                valid == validate(dec.metadata)
            IN IF ~ dec.ok THEN ParseErr("yaml_error")
               ELSE IF valid # "ok" THEN ParseErr(valid)
               ELSE [ok |-> TRUE, err |-> "", metadata |-> dec.metadata, body |-> split.body]

(***************************************************************************)
(* Inputs of the parser: documents built from declared fields.             *)
(***************************************************************************)
\* "---\nname: <name>\ndescription: <description>\n[license: <license>\n]---\n<body>"
MakeBlock(m) ==
    KeyName \o ColonSpace \o m.name \o NewLine
    \o KeyDescription \o ColonSpace \o m.description \o NewLine
    \o (IF m.license = <<>> THEN <<>>
        ELSE KeyLicense \o ColonSpace \o m.license[1] \o NewLine)

MakeDoc(m, body, shape) ==
    CASE shape = "plain"      -> Delim \o NewLine \o MakeBlock(m) \o Delim \o NewLine \o body
      [] shape = "leading_ws" -> <<10, 32>> \o Delim \o NewLine \o MakeBlock(m) \o Delim \o NewLine \o body
      [] shape = "no_open"    -> MakeBlock(m) \o Delim \o NewLine \o body
      [] shape = "no_close"   -> Delim \o NewLine \o MakeBlock(m) \o TrimStart(body)

Shapes == {"plain", "leading_ws", "no_open", "no_close"}

\* "pdf", "a-b", "a---b", "Pdf", and names around the length limit
ParseNames == { <<112, 100, 102>>, <<97, 45, 98>>, <<97, 45, 45, 45, 98>>, <<80, 100, 102>> }
              \cup { Fill(97, n) : n \in (MaxNameLen - Slack)..(MaxNameLen + Slack) }
\* "x y", "x---y", and descriptions around the length limit in characters and in bytes
ParseDescs == { <<120, 32, 121>>, <<120, 45, 45, 45, 121>> }
              \cup { Fill(100, MaxDescriptionLen + d) : d \in (0 - Slack)..Slack }
              \cup { Fill(233, (MaxDescriptionLen \div 2) + d) : d \in (0 - Slack)..Slack }
\* None, Some("MIT")
ParseLicenses == { <<>>, << <<77, 73, 84>> >> }
\* "# T", "\n\n# T", "a\n---\nb"
ParseBodies == { <<35, 32, 84>>, <<10, 10, 35, 32, 84>>, <<97, 10, 45, 45, 45, 10, 98>> }

ParseInit ==
    /\ \E n \in ParseNames, d \in ParseDescs, l \in ParseLicenses,
          b \in ParseBodies, sh \in Shapes :
           LET m == [NoMeta EXCEPT !.name = n, !.description = d, !.license = l]
           IN /\ declared = [metadata |-> m, body |-> b, shape |-> sh]
              /\ content = MakeDoc(m, b, sh)
    /\ parsed = ParseErr("none")
    /\ validateIdle /\ resolveIdle /\ discoverIdle /\ mergeIdle /\ formatIdle

Parse ==
    /\ parsed = ParseErr("none")
    /\ parsed' = parse_skill_file(content)
    /\ UNCHANGED <<content, declared, validateVars, resolveVars, discoverVars,
                   mergeVars, formatVars>>

SpecParse == ParseInit /\ [][Parse]_vars

ParseDone == parsed.err \notin {"none", "idle"}

\* C5: a document "---\n<block>\n---\n<body>" whose block declares a name matching
\* ^[a-z0-9-]{1,64}$ and a description of at most 1024 characters parses and
\* validates, and the result carries exactly the declared fields and the body
\* with its leading whitespace trimmed.
C5_ParseRoundTrip ==
    ( /\ ParseDone
      /\ declared.shape = "plain"
      /\ Len(declared.metadata.name) \in 1..MaxNameLen
      /\ \A i \in 1..Len(declared.metadata.name) : IsNameChar(declared.metadata.name[i])
      /\ Len(declared.metadata.description) <= MaxDescriptionLen )
    => /\ parsed.ok
       /\ parsed.metadata = declared.metadata
       /\ parsed.body = TrimStart(declared.body)

\* C9 as stated: for a document with correct delimiters whose block decodes to
\* metadata that violates a validation rule, parse_skill_file succeeds and
\* returns that metadata and the body.
C9_ParseDoesNotValidate ==
    LET split == SplitFrontmatter(content)
        dec == DecodeYaml(split.yaml)
    IN ( ParseDone /\ split.ok /\ dec.ok /\ validate(dec.metadata) # "ok" )
       => /\ parsed.ok
          /\ parsed.metadata = dec.metadata
          /\ parsed.body = split.body

\* C9 amended: parse_skill_file itself calls validate on the decoded metadata.
\* For a document with correct delimiters whose block decodes to metadata that
\* violates a validation rule it fails with validate's error and returns no
\* metadata and no body; whatever metadata it returns passes validate.
C9_ParseValidates ==
    LET split == SplitFrontmatter(content)
        dec == DecodeYaml(split.yaml)
    IN ParseDone =>
         /\ ( split.ok /\ dec.ok /\ validate(dec.metadata) # "ok" )
            => parsed = ParseErr(validate(dec.metadata))
         /\ parsed.ok => validate(parsed.metadata) = "ok"

\* A document with correct delimiters and an uppercase name has been parsed.
C9_Witness ==
    /\ ParseDone
    /\ declared.shape = "plain"
    /\ declared.metadata.name = <<80, 100, 102>>
    /\ parsed = ParseErr("name_chars")

(***************************************************************************)
(* Paths and the file system seen by Skill::resolve_path.                  *)
(*                                                                         *)
(* An absolute Path is the sequence of its normal components (each a       *)
(* string); the file system maps every existing path to its node: a        *)
(* directory, a file, or a symbolic link with an absolute target.          *)
(***************************************************************************)
\* The number of symbolic links one resolution may follow (ELOOP beyond it).
MaxLinks == 3

\* ".", ".."; the separator '/' is the character 47
CurDir == <<46>>
DotDot == <<46, 46>>

\* The (start, end) offsets of the '/'-separated segments of s, in order.
Segments(s) ==
    LET sl == { i \in 1..Len(s) : s[i] = 47 }
        starts == {1} \cup { i + 1 : i \in sl }
        span(st) == <<st, Min({ i \in sl : i >= st } \cup {Len(s) + 1}) - 1>>
        kept == { st \in starts : span(st)[2] >= st /\ SubSeq(s, st, span(st)[2]) # CurDir }
        nth(k) == CHOOSE st \in kept : Cardinality({ t \in kept : t < st }) = k - 1
    IN [ k \in 1..Cardinality(kept) |-> SubSeq(s, nth(k), span(nth(k))[2]) ]

\* Path::components of a path string: repeated separators and "." are dropped.
Components(s) == Segments(s)

\* Path::is_absolute
IsAbsolute(s) == Len(s) > 0 /\ s[1] = 47

\* Path::join (line 100): an absolute argument replaces the base.
Join(base, rel) == IF IsAbsolute(rel) THEN Components(rel) ELSE base \o Components(rel)

\* Path::starts_with (line 108): a prefix by whole components.
PathStartsWith(p, base) == Len(p) >= Len(base) /\ SubSeq(p, 1, Len(base)) = base

PathErr == [ok |-> FALSE, path |-> <<>>]
PathOk(p) == [ok |-> TRUE, path |-> p]

\* Path::canonicalize (lines 101, 106; realpath): every component must exist,
\* symbolic links are followed, the result holds no link.
RECURSIVE Walk(_, _, _, _)
Walk(f, done, todo, fuel) ==
    IF todo = <<>> THEN PathOk(done)
    ELSE LET next == Append(done, Head(todo))
         IN IF next \notin DOMAIN f THEN PathErr
            ELSE IF f[next].kind = "link"
                 THEN IF fuel = 0 THEN PathErr
                      ELSE Walk(f, <<>>, f[next].target \o Tail(todo), fuel - 1)
            ELSE IF f[next].kind = "file" /\ Tail(todo) # <<>> THEN PathErr
            ELSE Walk(f, next, Tail(todo), fuel)

canonicalize(f, p) == Walk(f, <<>>, p, MaxLinks)

Ok(p)  == [ok |-> TRUE, err |-> "", path |-> p]
Err(e) == [ok |-> FALSE, err |-> e, path |-> <<>>]

(***************************************************************************)
(* Skill::resolve_path (lines 94-113).                                     *)
(***************************************************************************)
resolve_path(f, path, rel) ==
    IF Contains(rel, DotDot) THEN Err("path traversal not allowed")
    ELSE LET joined == Join(path, rel)
             canonical_resolved ==
                 IF canonicalize(f, joined).ok THEN canonicalize(f, joined).path ELSE joined
             canonical_skill_dir ==
                 IF canonicalize(f, path).ok THEN canonicalize(f, path).path ELSE path
         IN IF ~ PathStartsWith(canonical_resolved, canonical_skill_dir)
            THEN Err("path escapes skill directory")
            ELSE Ok(canonical_resolved)

(***************************************************************************)
(* Inputs of the resolver.                                                 *)
(*   /r/t          the skill directory (when it exists), with s/ and s/f   *)
(*   /r/t/l        a symbolic link of the chosen kind                      *)
(*   /o, /o/f      a directory and a file outside the skill directory      *)
(*   /k -> /r      a link above the skill directory                        *)
(*   /m -> /r/t    a link to the skill directory (when it exists)          *)
(***************************************************************************)
cR == <<114>>
cT == <<116>>
cS == <<115>>
cF == <<102>>
cL == <<108>>
cN == <<110>>
cO == <<111>>
cK == <<107>>
cM == <<109>>

Dir == [kind |-> "dir", target |-> <<>>]
File == [kind |-> "file", target |-> <<>>]
Link(t) == [kind |-> "link", target |-> t]

LinkKinds == {"none", "inside", "outside", "outside_file", "dangling", "loop"}

LinkTarget(k) ==
    CASE k = "inside"       -> <<cR, cT, cS>>
      [] k = "outside"      -> <<cO>>
      [] k = "outside_file" -> <<cO, cF>>
      [] k = "dangling"     -> <<cO, cN>>
      [] k = "loop"         -> <<cR, cT, cL>>

OutsideNodes ==
    ( <<cR>> :> Dir ) @@ ( <<cO>> :> Dir ) @@ ( <<cO, cF>> :> File )
    @@ ( <<cK>> :> Link(<<cR>>) )

SkillNodes(k) ==
    ( <<cM>> :> Link(<<cR, cT>>) ) @@ ( <<cR, cT>> :> Dir ) @@ ( <<cR, cT, cS>> :> Dir ) @@ ( <<cR, cT, cS, cF>> :> File )
    @@ (IF k = "none" THEN <<>> ELSE ( <<cR, cT, cL>> :> Link(LinkTarget(k)) ))

\* The file systems: the skill directory exists or not, with one kind of link.
FileSystems == { OutsideNodes } \cup { OutsideNodes @@ SkillNodes(k) : k \in LinkKinds }

\* /r/t, /k/t, /m
SkillPaths == { <<cR, cT>>, <<cK, cT>>, <<cM>> }

\* "s/f", "s/n", "n", "l", "l/f", "l/n", "", "./s/f", "s//f", "/o/f", "/r/t/s/f",
\* "../o/f", "s/../s/f", "s/n..f"
RelativePaths ==
    { <<115, 47, 102>>, <<115, 47, 110>>, <<110>>, <<108>>, <<108, 47, 102>>,
      <<108, 47, 110>>, <<>>, <<46, 47, 115, 47, 102>>, <<115, 47, 47, 102>>,
      <<47, 111, 47, 102>>, <<47, 114, 47, 116, 47, 115, 47, 102>>,
      <<46, 46, 47, 111, 47, 102>>, <<115, 47, 46, 46, 47, 115, 47, 102>>,
      <<115, 47, 110, 46, 46, 102>> }

ResolveInit ==
    /\ fs \in FileSystems
    /\ skill_path \in SkillPaths
    /\ relative_path \in RelativePaths
    /\ resolved = Err("none")
    /\ validateIdle /\ parseIdle /\ discoverIdle /\ mergeIdle /\ formatIdle

Resolve ==
    /\ resolved = Err("none")
    /\ resolved' = resolve_path(fs, skill_path, relative_path)
    /\ UNCHANGED <<fs, skill_path, relative_path, validateVars, parseVars,
                   discoverVars, mergeVars, formatVars>>

SpecResolve == ResolveInit /\ [][Resolve]_vars

ResolveDone == resolved.err \notin {"none", "idle"}

\* Where a path leads when it is used: symbolic links are followed as far as
\* the components exist, and the components that do not exist yet are created
\* below the directory reached.
RECURSIVE Follow(_, _, _, _)
Follow(f, done, todo, fuel) ==
    IF todo = <<>> THEN PathOk(done)
    ELSE LET next == Append(done, Head(todo))
         IN IF next \notin DOMAIN f THEN PathOk(done \o todo)
            ELSE IF f[next].kind = "link"
                 THEN IF fuel = 0 THEN PathErr
                      ELSE Follow(f, <<>>, f[next].target \o Tail(todo), fuel - 1)
            ELSE IF f[next].kind = "file" /\ Tail(todo) # <<>> THEN PathErr
            ELSE Follow(f, next, Tail(todo), fuel)

Location(f, p) == Follow(f, <<>>, p, MaxLinks)

\* The skill root's canonical form: canonicalized, or the path itself when
\* that fails.
CanonicalRoot ==
    IF canonicalize(fs, skill_path).ok THEN canonicalize(fs, skill_path).path ELSE skill_path

\* The joined path leads to a location outside (resp. beneath) the directory
\* the skill root leads to.
LeadsOutside ==
    /\ Location(fs, Join(skill_path, relative_path)).ok
    /\ ~ PathStartsWith(Location(fs, Join(skill_path, relative_path)).path,
                        Location(fs, skill_path).path)
LeadsBeneath ==
    /\ Location(fs, Join(skill_path, relative_path)).ok
    /\ PathStartsWith(Location(fs, Join(skill_path, relative_path)).path,
                      Location(fs, skill_path).path)

\* C3: resolve_path never returns a path outside the skill root: it fails when
\* relative_path contains "..", it fails when the joined path leads (following
\* symbolic links) outside the root's canonical directory, and a returned path
\* is prefixed component-wise by the canonical root.
C3_ResolveNeverEscapes ==
    ResolveDone =>
        /\ Contains(relative_path, DotDot) => ~ resolved.ok
        /\ LeadsOutside => ~ resolved.ok
        /\ resolved.ok => PathStartsWith(resolved.path, CanonicalRoot)

\* C4: resolve_path succeeds for every relative_path without ".." that names a
\* location beneath the skill root, whether or not the target or the root
\* exists and whether or not the root is reached through a symbolic link, and
\* the returned path is prefixed by the root.
C4_ResolveSucceedsBeneath ==
    ( ResolveDone /\ ~ Contains(relative_path, DotDot) /\ LeadsBeneath )
    => /\ resolved.ok
       /\ PathStartsWith(resolved.path, CanonicalRoot)

(***************************************************************************)
(* The file system seen by discovery.  A skills root is missing, a file,   *)
(* a directory that cannot be listed, or a directory with a listing.  One  *)
(* item of the listing is an error or a child path; a child is a directory *)
(* or not, and its SKILL.md is absent, a directory, an unreadable file or  *)
(* a file with a text.                                                     *)
(***************************************************************************)
\* The number of items of a listing.
MaxEntries == 2

Skill(metadata, body, path) == [metadata |-> metadata, body |-> body, path |-> path]

\* Skill::name (line 83)
SkillName(skill) == skill.metadata.name

\* Path::file_name (lines 192-195): the last component, "" when there is none.
FileName(path) == IF path = <<>> THEN <<>> ELSE path[Len(path)]

\* HashMap::insert (lines 211, 282, 310): an existing key is overwritten.
Insert(map, key, value) == (key :> value) @@ map

\* AddSkill without the comparison of lines 196 and 267.
AddSkillUnchecked(map, path, text) ==
    LET result == parse_skill_file(text)
    IN IF ~ result.ok THEN map
       ELSE Insert(map, SkillName(Skill(result.metadata, result.body, path)),
                   Skill(result.metadata, result.body, path))

\* Lines 183-211 and 254-282: parse the text, compare the declared name with
\* the directory name, insert the skill.
AddSkill(map, path, text) ==
    LET result == parse_skill_file(text)
    IN IF ~ result.ok THEN map
       ELSE IF result.metadata.name # FileName(path) THEN map
       ELSE Insert(map, SkillName(Skill(result.metadata, result.body, path)),
                   Skill(result.metadata, result.body, path))

\* Lines 165-211: one item of the stream, after `entry?` gave its path.
\* fs.is_dir, fs.is_file and fs.load are asked about the child.
AsyncEntry(map, dir, e) ==
    IF e.kind # "dir" THEN map
    ELSE IF e.skill \notin {"file", "unreadable"} THEN map
    ELSE IF e.skill = "unreadable" THEN map
    ELSE AddSkill(map, Append(dir, e.name), e.text)

\* Lines 235-282: one item of `entries.flatten()`.  Path::is_dir, Path::exists
\* and std::fs::read_to_string are asked about the child; reading a SKILL.md
\* that is a directory fails.
SyncEntry(map, dir, e) ==
    IF e.kind # "dir" THEN map
    ELSE IF e.skill = "none" THEN map
    ELSE IF e.skill \in {"unreadable", "dir"} THEN map
    ELSE AddSkill(map, Append(dir, e.name), e.text)

\* Lines 219-286 as one function: the fold of SyncEntry over the listing.
RECURSIVE SyncScan(_, _, _, _)
SyncScan(map, dir, entries, i) ==
    IF i > Len(entries) THEN map
    ELSE IF entries[i].kind = "err" THEN SyncScan(map, dir, entries, i + 1)
    ELSE SyncScan(SyncEntry(map, dir, entries[i]), dir, entries, i + 1)

discover_skills_sync(r) ==
    IF r.kind \in {"missing", "file"} THEN <<>>
    ELSE IF r.kind = "unlistable" THEN <<>>
    ELSE SyncScan(<<>>, r.path, r.entries, 1)

(***************************************************************************)
(* Inputs of discovery.                                                    *)
(***************************************************************************)
\* Directory names "a", "b"; the invalid name "A".
cA == <<97>>
cB == <<98>>
cUpperA == <<65>>
cG == <<103>>
DirNames == {cA, cB}

\* "d", "# T"
ShortDesc == <<100>>
ShortBody == <<35, 32, 84>>

SkillText(n) ==
    MakeDoc([NoMeta EXCEPT !.name = n, !.description = ShortDesc], ShortBody, "plain")

ErrEntry == [kind |-> "err", name |-> <<>>, skill |-> "none", text |-> <<>>]
Child(kind, n, skill, text) == [kind |-> kind, name |-> n, skill |-> skill, text |-> text]

\* The children a directory name can be: a valid skill, a skill declaring
\* another name, a skill with an invalid name, a SKILL.md without frontmatter,
\* an unreadable SKILL.md, a SKILL.md that is a directory, no SKILL.md, and a
\* child that is not a directory.
Children(n) ==
    { Child("dir", n, "file", SkillText(n)),
      Child("dir", n, "file", SkillText(CHOOSE o \in DirNames : o # n)),
      Child("dir", n, "file", SkillText(cUpperA)),
      Child("dir", n, "file", ShortBody),
      Child("dir", n, "unreadable", <<>>),
      Child("dir", n, "dir", <<>>),
      Child("dir", n, "none", <<>>),
      Child("file", n, "none", <<>>) }

Entries == {ErrEntry} \cup UNION { Children(n) : n \in DirNames }

\* A directory holds each name once.
Listings ==
    UNION { { l \in [1..k -> Entries] :
                \A i, j \in 1..k : (i # j /\ l[i].kind # "err") => l[i].name # l[j].name }
            : k \in 0..MaxEntries }

Roots(path) ==
    { [kind |-> k, path |-> path, entries |-> <<>>] : k \in {"missing", "file", "unlistable"} }
    \cup { [kind |-> "dir", path |-> path, entries |-> l] : l \in Listings }

(***************************************************************************)
(* discover_skills (lines 149-215) and discover_skills_sync (lines         *)
(* 219-286), one step per item of the listing, over the same file system.  *)
(* The two scans share nothing but the file system; the synchronous scan   *)
(* is run after the asynchronous one has returned.                         *)
(***************************************************************************)
DiscoverInit ==
    /\ root \in Roots(<<cG>>)
    /\ a_pc = "start" /\ a_idx = 0 /\ a_skills = <<>> /\ a_result = "none"
    /\ s_pc = "start" /\ s_idx = 0 /\ s_skills = <<>>
    /\ validateIdle /\ parseIdle /\ resolveIdle /\ mergeIdle /\ formatIdle

othersOfDiscover == <<validateVars, parseVars, resolveVars, mergeVars, formatVars>>

\* Lines 153-160.
AsyncStart ==
    /\ a_pc = "start"
    /\ a_skills' = <<>>
    /\ IF root.kind \in {"missing", "file"}
       THEN a_pc' = "done" /\ a_result' = "ok" /\ a_idx' = a_idx
       ELSE IF root.kind = "unlistable"
       THEN a_pc' = "done" /\ a_result' = "err" /\ a_idx' = a_idx
       ELSE a_pc' = "scan" /\ a_result' = a_result /\ a_idx' = 1
    /\ UNCHANGED <<root, s_pc, s_idx, s_skills, othersOfDiscover>>

\* Lines 162-212: one turn of the loop.
AsyncNext ==
    /\ a_pc = "scan"
    /\ a_idx <= Len(root.entries)
    /\ IF root.entries[a_idx].kind = "err"
       THEN a_pc' = "done" /\ a_result' = "err" /\ a_skills' = a_skills /\ a_idx' = a_idx
       ELSE /\ a_skills' = AsyncEntry(a_skills, root.path, root.entries[a_idx])
            /\ a_idx' = a_idx + 1
            /\ UNCHANGED <<a_pc, a_result>>
    /\ UNCHANGED <<root, s_pc, s_idx, s_skills, othersOfDiscover>>

\* Line 214.
AsyncReturn ==
    /\ a_pc = "scan"
    /\ a_idx > Len(root.entries)
    /\ a_pc' = "done" /\ a_result' = "ok"
    /\ UNCHANGED <<root, a_idx, a_skills, s_pc, s_idx, s_skills, othersOfDiscover>>

\* Lines 220-232.
SyncStart ==
    /\ a_pc = "done"
    /\ s_pc = "start"
    /\ s_skills' = <<>>
    /\ IF root.kind \in {"missing", "file"}
       THEN s_pc' = "done" /\ s_idx' = s_idx
       ELSE IF root.kind = "unlistable"
       THEN s_pc' = "done" /\ s_idx' = s_idx
       ELSE s_pc' = "scan" /\ s_idx' = 1
    /\ UNCHANGED <<root, a_pc, a_idx, a_skills, a_result, othersOfDiscover>>

\* Lines 234-283: one turn of the loop; `flatten` drops the items in error.
SyncNext ==
    /\ s_pc = "scan"
    /\ s_idx <= Len(root.entries)
    /\ s_skills' = IF root.entries[s_idx].kind = "err" THEN s_skills
                   ELSE SyncEntry(s_skills, root.path, root.entries[s_idx])
    /\ s_idx' = s_idx + 1
    /\ UNCHANGED <<root, s_pc, a_pc, a_idx, a_skills, a_result, othersOfDiscover>>

\* Line 285.
SyncReturn ==
    /\ s_pc = "scan"
    /\ s_idx > Len(root.entries)
    /\ s_pc' = "done"
    /\ UNCHANGED <<root, s_idx, s_skills, a_pc, a_idx, a_skills, a_result, othersOfDiscover>>

DiscoverNext ==
    \/ AsyncStart \/ AsyncNext \/ AsyncReturn
    \/ SyncStart \/ SyncNext \/ SyncReturn

SpecDiscover == DiscoverInit /\ [][DiscoverNext]_vars

\* A child whose SKILL.md is readable, parses, validates and declares the
\* directory's name.
IsValidChild(e) ==
    /\ e.kind = "dir"
    /\ e.skill = "file"
    /\ parse_skill_file(e.text).ok
    /\ parse_skill_file(e.text).metadata.name = e.name

Listed == { i \in 1..Len(root.entries) : IsValidChild(root.entries[i]) }

HoldsAllValid(map) ==
    \A i \in Listed :
        /\ root.entries[i].name \in DOMAIN map
        /\ map[root.entries[i].name].path = Append(root.path, root.entries[i].name)

\* C1: in both modes the scan is never aborted by an item of the listing: the
\* returned collection holds every subdirectory whose SKILL.md is readable,
\* parses, validates and declares the directory's name, whatever the other
\* items of the listing are and wherever they come.
C1_ScanNeverAborted ==
    /\ (a_pc = "done" /\ root.kind = "dir") => (a_result = "ok" /\ HoldsAllValid(a_skills))
    /\ (s_pc = "done" /\ root.kind = "dir") => HoldsAllValid(s_skills)

\* C2: both modes return the same collection for the same file system, and a
\* root that cannot be listed gives an empty collection, not an error, in both.
C2_AsyncEqualsSync ==
    (a_pc = "done" /\ s_pc = "done") =>
        /\ a_result = "ok"
        /\ a_skills = s_skills
        /\ root.kind = "unlistable" => (a_skills = <<>> /\ s_skills = <<>>)

Wellformed(map) ==
    \A k \in DOMAIN map :
        /\ k = map[k].metadata.name
        /\ k = FileName(map[k].path)
        /\ validate(map[k].metadata) = "ok"

\* C10: in every collection either scan builds, a key equals its skill's
\* metadata.name and the last component of its path, and the metadata passes
\* validate; no insert of a scan overwrites or removes an entry inserted
\* earlier in that scan.
C10_KeysAgreeNoOverwrite ==
    /\ [](Wellformed(a_skills) /\ Wellformed(s_skills))
    /\ [][ /\ \A k \in DOMAIN a_skills : k \in DOMAIN a_skills' /\ a_skills'[k] = a_skills[k]
           /\ \A k \in DOMAIN s_skills : k \in DOMAIN s_skills' /\ s_skills'[k] = s_skills[k] ]_vars

\* Both scans have returned a collection of two skills.
C10_Witness ==
    /\ a_pc = "done" /\ a_result = "ok" /\ s_pc = "done"
    /\ DOMAIN a_skills = DirNames
    /\ DOMAIN s_skills = DirNames

(***************************************************************************)
(* discover_all_skills_sync (lines 301-315): the global skills directory,  *)
(* then each worktree's, later ones overriding.                            *)
(***************************************************************************)
\* The number of worktree roots.
MaxWorktrees == 2

\* "config", "skills", ".agents", "w"
cConfig == <<99, 111, 110, 102, 105, 103>>
cSkills == <<115, 107, 105, 108, 108, 115>>
cAgents == <<46, 97, 103, 101, 110, 116, 115>>
cW == <<119>>

\* global_skills_dir (lines 289-291), worktree_skills_dir (lines 294-296)
global_skills_dir == <<cConfig, cSkills>>
worktree_skills_dir(worktree_root) == worktree_root \o <<cAgents, cSkills>>

\* The i-th worktree root: /w/<i>
WorktreeRoot(i) == <<cW, <<48 + i>>>>

\* MergeInto keeping the entry already present.
MergeKeepingFirst(map, override) == map @@ override

\* Lines 309-311: every pair of the worktree's collection is inserted.
MergeInto(map, override) == override @@ map

\* The skills directories of the merge: missing, or listing valid skills and
\* a skill declaring another name.
MergeEntries ==
    { Child("dir", cA, "file", SkillText(cA)),
      Child("dir", cB, "file", SkillText(cB)),
      Child("dir", cB, "file", SkillText(cA)) }
MergeListings ==
    { l \in Listings : /\ \A i \in 1..Len(l) : l[i] \in MergeEntries
                       /\ \A i \in 1..(Len(l) - 1) : StrLess(l[i].name, l[i + 1].name) }
MergeRoots ==
    { [kind |-> "missing", path |-> <<>>, entries |-> <<>>] }
    \cup { [kind |-> "dir", path |-> <<>>, entries |-> l] : l \in MergeListings }

\* layers[1] is the global skills directory, layers[i + 1] the i-th worktree's.
LayerPath(i) ==
    IF i = 1 THEN global_skills_dir ELSE worktree_skills_dir(WorktreeRoot(i - 1))

MergeInit ==
    /\ \E n \in 0..MaxWorktrees :
         \E choice \in [1..(n + 1) -> MergeRoots] :
             layers = [ i \in 1..(n + 1) |-> [choice[i] EXCEPT !.path = LayerPath(i)] ]
    /\ m_pc = "start" /\ m_idx = 0 /\ all_skills = <<>>
    /\ validateIdle /\ parseIdle /\ resolveIdle /\ discoverIdle /\ formatIdle

othersOfMerge == <<validateVars, parseVars, resolveVars, discoverVars, formatVars>>

\* Line 303.
MergeGlobal ==
    /\ m_pc = "start"
    /\ all_skills' = discover_skills_sync(layers[1])
    /\ m_pc' = "worktrees" /\ m_idx' = 2
    /\ UNCHANGED <<layers, othersOfMerge>>

\* Lines 306-312: one worktree.
MergeWorktree ==
    /\ m_pc = "worktrees"
    /\ m_idx <= Len(layers)
    /\ all_skills' = MergeInto(all_skills, discover_skills_sync(layers[m_idx]))
    /\ m_idx' = m_idx + 1
    /\ UNCHANGED <<layers, m_pc, othersOfMerge>>

\* Line 314.
MergeReturn ==
    /\ m_pc = "worktrees"
    /\ m_idx > Len(layers)
    /\ m_pc' = "done"
    /\ UNCHANGED <<layers, m_idx, all_skills, othersOfMerge>>

MergeNext == MergeGlobal \/ MergeWorktree \/ MergeReturn

SpecMerge == MergeInit /\ [][MergeNext]_vars

\* The collection of layer i.
LayerSkills(i) == discover_skills_sync(layers[i])

\* C6: the merge is last-writer-wins: the result's keys are the union of the
\* keys of the base and of every override, and each name maps to the skill of
\* the last override that holds it, or to the base's skill when none does.
C6_MergeLastWriterWins ==
    m_pc = "done" =>
        /\ DOMAIN all_skills = UNION { DOMAIN LayerSkills(i) : i \in 1..Len(layers) }
        /\ \A i \in 1..Len(layers) :
               \A name \in DOMAIN LayerSkills(i) :
                   (\A j \in (i + 1)..Len(layers) : name \notin DOMAIN LayerSkills(j))
                   => all_skills[name] = LayerSkills(i)[name]

\* The merge has returned after a base and two overrides that all hold "a",
\* and the result's "a" is the second override's.
C6_Witness ==
    /\ m_pc = "done"
    /\ Len(layers) = 3
    /\ \A i \in 1..3 : cA \in DOMAIN LayerSkills(i)
    /\ all_skills[cA].path = Append(worktree_skills_dir(WorktreeRoot(2)), cA)

(***************************************************************************)
(* format_skills_for_prompt (lines 318-344).                               *)
(***************************************************************************)
PromptDescLimit == 80
PromptDescKeep == 77

\* "..."
Ellipsis == <<46, 46, 46>>

\* Lines 323-324: the values of the map, sorted by name.
SortByName(map) ==
    LET rank(k) == Cardinality({ o \in DOMAIN map : StrLess(SkillName(map[o]), SkillName(map[k])) })
    IN [ i \in 1..Cardinality(DOMAIN map) |-> map[CHOOSE k \in DOMAIN map : rank(k) = i - 1] ]

\* str::is_char_boundary: byte offset b starts a character of s (or ends s).
IsCharBoundary(s, b) == \E k \in 0..Len(s) : ByteLenRange(s, 1, k) = b

\* &s[..b], for b on a character boundary.
BytePrefix(s, b) == SubSeq(s, 1, CHOOSE k \in 0..Len(s) : ByteLenRange(s, 1, k) = b)

\* Lines 330-334: the description of one SkillContext; `&d[..77]` panics when
\* byte 77 is inside a character.
Truncate(d) ==
    IF StrLen(d) > PromptDescLimit
    THEN IF IsCharBoundary(d, PromptDescKeep)
         THEN [panic |-> FALSE, description |-> BytePrefix(d, PromptDescKeep) \o Ellipsis]
         ELSE [panic |-> TRUE, description |-> <<>>]
    ELSE [panic |-> FALSE, description |-> d]

\* Lines 326-336.
SkillContexts(map) ==
    [ i \in 1..Cardinality(DOMAIN map) |->
        [name |-> SkillName(SortByName(map)[i]),
         description |-> Truncate(SortByName(map)[i].metadata.description).description] ]

Panics(map) == \E k \in DOMAIN map : Truncate(map[k].metadata.description).panic

\* Lines 318-344.  The template's rendering is outside this file: it gives the
\* text of the contexts or fails, and a failure gives the empty string.
format_skills_for_prompt(map, render_ok) ==
    IF Panics(map) THEN [status |-> "panic", has_skills |-> FALSE, skills |-> <<>>]
    ELSE IF ~ render_ok THEN [status |-> "empty", has_skills |-> FALSE, skills |-> <<>>]
    ELSE [status |-> "rendered",
          has_skills |-> SkillContexts(map) # <<>>,
          skills |-> SkillContexts(map)]

(***************************************************************************)
(* Inputs of the formatter: collections of one or two skills whose         *)
(* descriptions have lengths around the limits, in characters and bytes.   *)
(***************************************************************************)
PromptLens ==
    {10, 90}
    \cup { (PromptDescLimit \div w) + d : w \in 1..3, d \in (0 - Slack)..Slack }
    \cup { PromptDescKeep + d : d \in (0 - Slack)..Slack }

PromptDescs ==
    { NameOf(h, 100, n) : h \in DescChars, n \in PromptLens }
    \cup { Fill(233, n) : n \in PromptLens }

PromptSkill(n, d) ==
    Skill([NoMeta EXCEPT !.name = n, !.description = d], ShortBody, <<cG, n>>)

FormatInit ==
    /\ \/ \E d \in PromptDescs : skills = (cA :> PromptSkill(cA, d))
       \/ \E d \in PromptDescs, e \in { Fill(100, 10), Fill(100, 90), Fill(233, 90) } :
              skills = (cB :> PromptSkill(cB, d)) @@ (cA :> PromptSkill(cA, e))
    /\ prompt = [status |-> "none", has_skills |-> FALSE, skills |-> <<>>]
    /\ validateIdle /\ parseIdle /\ resolveIdle /\ discoverIdle /\ mergeIdle

Format ==
    /\ prompt.status = "none"
    /\ \E render_ok \in BOOLEAN : prompt' = format_skills_for_prompt(skills, render_ok)
    /\ UNCHANGED <<skills, validateVars, parseVars, resolveVars, discoverVars, mergeVars>>

SpecFormat == FormatInit /\ [][Format]_vars

\* C8: format_skills_for_prompt always returns, and it truncates on character
\* boundaries: a description of more than 80 characters is emitted as its
\* first 77 characters followed by "...", a shorter one unchanged.
C8_TruncatesOnCharBoundaries ==
    /\ prompt.status # "panic"
    /\ prompt.status = "rendered" =>
         \A i \in 1..Len(prompt.skills) :
             LET d == skills[prompt.skills[i].name].metadata.description
             IN prompt.skills[i].description =
                    IF Len(d) > PromptDescLimit
                    THEN SubSeq(d, 1, PromptDescKeep) \o Ellipsis
                    ELSE d

====
